---- MODULE Spec2Model ----
(***************************************************************************)
(* CA-MATCH: the candidate scorer (services/matching_engine.py,            *)
(* services/skill_graph.py, services/feedback.py), the matching engine     *)
(* run_matching and the handlers that create and remove assignments        *)
(* (routers/admin.py, routers/professors.py, routers/students.py).         *)
(*                                                                         *)
(* Arithmetic.  The code computes scores in floating point.  Here every    *)
(* band value is an exact rational kept as an integer number of 1/Scale    *)
(* units, and a composite score is kept as the mixed-radix digits of       *)
(* score * Scale, most significant first, so two scores compare            *)
(* lexicographically on their digits.  Grades are in hundredths of a       *)
(* point, competency weights in tenths.                                    *)
(***************************************************************************)
EXTENDS Integers, Sequences, FiniteSets, TLC

\* ------------------------------------------------------------------ bounds
NumStudents == 2
NumCourses == 2
MaxVacancies == 2
MaxRank == 2

Students == 1..NumStudents
Courses == 1..NumCourses
Ranks == 1..MaxRank

\* Python's None
None == "None"

\* 433 (grade scale) * 100 (percentages) * 24 (averages of up to 4 ratings,
\* halved; competency weight totals)
Scale == 433 * 100 * 24

Max(a, b) == IF a >= b THEN a ELSE b
Min(a, b) == IF a <= b THEN a ELSE b

RECURSIVE SumSeq(_)
SumSeq(s) == IF s = <<>> THEN 0 ELSE Head(s) + SumSeq(Tail(s))

RECURSIVE SumOver(_, _)
SumOver(f, S) ==
  IF S = {} THEN 0
  ELSE LET x == CHOOSE y \in S : TRUE IN f[x] + SumOver(f, S \ {x})

\* ------------------------------------------------- services/feedback.py
normalize_rating_FloorZero(rating) == (Max(0, Min(5, rating)) * 100 * Scale) \div 5

normalize_rating(rating) == (Max(1, Min(5, rating)) * 100 * Scale) \div 5

\* ------------------------------------------- services/matching_engine.py
_preference_score(preference) == Max(0, 100 - (preference.rank - 1) * 10)

\* str.strip().lower() on the tags that occur in the model
strip_lower(raw) ==
  CASE raw = "  machine learning & analytics " -> "machine learning & analytics"
    [] raw = " optimization " -> "optimization"
    [] raw = "Optimization" -> "optimization"
    [] raw = "Finance" -> "finance"
    [] raw = " " -> ""
    [] raw = "Machine Learning & Analytics" -> "machine learning & analytics"
    [] raw = " Machine " -> "machine"
    [] raw = "Learning" -> "learning"
    [] raw = " OPERATIONS" -> "operations"
    [] OTHER -> raw

\* str.lower() on the track names that occur in the model
lower(raw) ==
  CASE raw = "Machine Learning & Analytics" -> "machine learning & analytics"
    [] raw = "Optimization" -> "optimization"
    [] raw = "Operations" -> "operations"
    [] OTHER -> raw

\* a text is kept as the list of its parts (comma-separated tags, or words);
\* None and "" are both <<>>: the code only ever tests them with "not"
Falsy(text) == text = <<>>

_interest_bonus_NoStrip(student, course) ==
  IF Falsy(student.interests) \/ course.track = None THEN 0
  ELSE IF lower(course.track) \in
            { lower(student.interests[i]) : i \in DOMAIN student.interests }
       THEN 15 * Scale ELSE 0

_interest_bonus(student, course) ==
  IF Falsy(student.interests) \/ course.track = None THEN 0
  ELSE LET normalized_interests ==
             { strip_lower(student.interests[i]) : i \in
                 { j \in DOMAIN student.interests :
                     strip_lower(student.interests[j]) # "" } }
       IN IF lower(course.track) \in normalized_interests
          THEN 15 * Scale ELSE 0

\* a variant whose fallback to the ratings of other courses is not halved
_feedback_score_FullFallback(student, course) ==
  LET IsCourse(entry) == entry.course_id = course.id
      entries == IF SelectSeq(student.instructor_feedback, IsCourse) # <<>>
                 THEN SelectSeq(student.instructor_feedback, IsCourse)
                 ELSE student.instructor_feedback
  IN IF entries = <<>> THEN 0
     ELSE SumSeq([i \in DOMAIN entries |-> normalize_rating(entries[i].rating)])
            \div Len(entries)

_feedback_score_CourseOnly(student, course) ==
  LET IsCourse(entry) == entry.course_id = course.id
      course_specific == SelectSeq(student.instructor_feedback, IsCourse)
  IN IF course_specific # <<>>
     THEN SumSeq([i \in DOMAIN course_specific |->
                    normalize_rating(course_specific[i].rating)])
            \div Len(course_specific)
     ELSE 0

_feedback_score(student, course) ==
  LET feedback_entries == student.instructor_feedback
      IsCourse(entry) == entry.course_id = course.id
      course_specific == SelectSeq(feedback_entries, IsCourse)
      Normalized(entries) ==
        [i \in DOMAIN entries |-> normalize_rating(entries[i].rating)]
  IN IF course_specific # <<>>
     THEN SumSeq(Normalized(course_specific)) \div Len(course_specific)
     ELSE IF feedback_entries # <<>>
          THEN SumSeq(Normalized(feedback_entries))
                 \div (2 * Len(feedback_entries))
          ELSE 0

\* letter grades, in hundredths of a grade point
GRADE_SCALE ==
  ("A+" :> 433) @@ ("A" :> 400) @@ ("A-" :> 367) @@ ("B+" :> 333)
  @@ ("B" :> 300) @@ ("B-" :> 267) @@ ("C+" :> 233) @@ ("C" :> 200)
  @@ ("C-" :> 167) @@ ("D" :> 100) @@ ("F" :> 0)

\* str.strip().upper() on the grade strings that occur in the model
strip_upper(raw) ==
  CASE raw = " a " -> "A"
    [] raw = "b-" -> "B-"
    [] raw = "  " -> ""
    [] raw = "abc" -> "ABC"
    [] raw = "nan" -> "NAN"
    [] raw = "inf" -> "INF"
    [] raw = "-inf" -> "-INF"
    [] raw = "1e2" -> "1E2"
    [] raw = " 4.33\n" -> "4.33"
    [] OTHER -> raw

\* float's values that are no numbers, placed where the comparisons of
\* _grade_to_score put them: inf above every number, -inf below every
\* number, nan beyond both bounds (nan <= x is False for every x)
Infinity == 1000000000
NegInfinity == -1000000000
NaN == 2000000000

\* float(value) in hundredths; a text outside the domain raises ValueError
float_of ==
  ("3.5" :> 350) @@ ("4.4" :> 440) @@ ("90" :> 9000) @@ ("90.05" :> 9005)
  @@ ("101" :> 10100) @@ ("-1" :> -100) @@ ("4.33" :> 433) @@ ("0" :> 0)
  @@ ("100" :> 10000) @@ ("1E2" :> 10000) @@ ("NAN" :> NaN)
  @@ ("INF" :> Infinity) @@ ("-INF" :> NegInfinity)

\* (numeric / 4.33) * 100 in 1/Scale units; of a negative number only the
\* sign is kept, which is all that max(0.0, ...) reads of it
GradePointsAsPercent(numeric) ==
  IF numeric < 0 THEN numeric ELSE numeric * ((100 * Scale) \div 433)

\* a variant that knows the letters only
_grade_to_score_LettersOnly(raw_grade) ==
  IF raw_grade = None THEN 0
  ELSE LET value == strip_upper(raw_grade)
       IN IF value \in DOMAIN GRADE_SCALE
          THEN Min(100 * Scale, GRADE_SCALE[value] * ((100 * Scale) \div 433))
          ELSE 0

\* the three returns on numeric, the last lines of _grade_to_score
NumericToScore(numeric) ==
  IF numeric <= 433
  THEN Max(0, Min(100 * Scale, GradePointsAsPercent(numeric)))
  ELSE IF numeric <= 10000
  THEN Max(0, Min(100 * Scale, numeric * (Scale \div 100)))
  ELSE 100 * Scale

\* _grade_to_score on value, the stripped and upper-cased text
GradeValueToScore(value) ==
  IF value = "" THEN 0
  ELSE IF value \in DOMAIN GRADE_SCALE THEN NumericToScore(GRADE_SCALE[value])
  ELSE IF value \notin DOMAIN float_of THEN 0
  ELSE NumericToScore(float_of[value])

_grade_to_score(raw_grade) ==
  IF raw_grade = None THEN 0
  ELSE GradeValueToScore(strip_upper(raw_grade))

\* ------------------------------------------------ services/skill_graph.py
_STOPWORDS == {"and", "or", "for", "the", "with", "using", "from", "into",
               "via", "to", "in", "of", "a", "an"}

\* _TOKEN_PATTERN on one word of a text, lower-cased: the token the word
\* yields, "" when the pattern (a letter, then two or more further
\* characters) does not match it
token_of(word) ==
  CASE word = "Experienced" -> "experienced"
    [] word = "Skilled" -> "skilled"
    [] word = "in" -> ""
    [] word = "ML" -> ""
    [] OTHER -> word

extract_keywords_from_texts(texts) ==
  UNION { { token_of(texts[t][i]) : i \in
              { j \in DOMAIN texts[t] :
                  /\ token_of(texts[t][j]) # ""
                  /\ token_of(texts[t][j]) \notin _STOPWORDS } }
          : t \in { u \in DOMAIN texts : ~Falsy(texts[u]) } }

\* the JSON list and the comma-separated fallback normalise alike
deserialize_keywords(raw) ==
  IF Falsy(raw) THEN {}
  ELSE { strip_lower(raw[i]) : i \in
           { j \in DOMAIN raw : strip_lower(raw[j]) # "" } }

\* competency_matrix text as [kind, items]: kind "none" (None or ""), "dict"
\* (items are <<key, value, value is a number>>, the value in tenths,
\* Infinity for a value float() reads as inf: "inf", Infinity, 1e999),
\* "list" or "csv" (items are keys)
NoCompetencies == [kind |-> "none", items |-> <<>>]

RECURSIVE ParseItems(_, _, _)
ParseItems(kind, items, competencies) ==
  IF items = <<>> THEN competencies
  ELSE LET item == Head(items)
           normalized == strip_lower(IF kind = "dict" THEN item[1] ELSE item)
           weight == IF kind = "dict"
                     THEN (IF item[3] THEN Max(0, item[2]) ELSE 10)
                     ELSE 10
           next == IF normalized = "" THEN competencies
                   ELSE [k \in (DOMAIN competencies) \cup {normalized} |->
                           IF k = normalized THEN weight ELSE competencies[k]]
       IN ParseItems(kind, Tail(items), next)

_parse_competencies(course, cache) ==
  IF course.id \in DOMAIN cache THEN cache[course.id]
  ELSE IF course.competency_matrix.kind = "none" THEN <<>>
  ELSE ParseItems(course.competency_matrix.kind,
                  course.competency_matrix.items, <<>>)

\* the cache after _parse_competencies(course)
CacheAfter(course, cache) ==
  IF course.id \in DOMAIN cache THEN cache
  ELSE (course.id :> _parse_competencies(course, cache)) @@ cache

student_keywords(student) ==
  LET stored == deserialize_keywords(student.skill_keywords)
  IN IF stored # {} THEN stored
     ELSE extract_keywords_from_texts(
            <<student.resume_text, student.transcript_text>>)

NoMatch == [matched_skills |-> {}, coverage |-> 0, weighted_score |-> 0]

\* (matched_weight / total_weight) * 100.0 in 1/Scale units; as float
\* division has it, x / inf is 0.0 and inf / inf is nan
WeightedScore(matched_weight, total_weight) ==
  IF total_weight >= Infinity
  THEN (IF matched_weight >= Infinity THEN NaN ELSE 0)
  ELSE matched_weight * ((100 * Scale) \div total_weight)

score_match(student, course, cache) ==
  LET student_skills == student_keywords(student)
      competencies == _parse_competencies(course, cache)
      matched == { skill \in student_skills : skill \in DOMAIN competencies }
      sum_weight == SumOver(competencies, DOMAIN competencies)
      total_weight == IF sum_weight <= 0
                      THEN 10 * Cardinality(DOMAIN competencies)
                      ELSE sum_weight
      matched_weight == SumOver(competencies, matched)
  IN IF student_skills = {} \/ DOMAIN competencies = {} THEN NoMatch
     ELSE IF matched = {} THEN NoMatch
     ELSE [matched_skills |-> matched,
           coverage |-> (Cardinality(matched) * Scale)
                          \div Cardinality(DOMAIN competencies),
           weighted_score |-> WeightedScore(matched_weight, total_weight)]

\* ------------------------------------------- services/matching_engine.py
\* next(pref for pref in student.preferences if pref.course_id == course.id)
HasPreference(student, course) ==
  \E i \in DOMAIN student.preferences :
     student.preferences[i].course_id = course.id

PreferenceFor(student, course) ==
  LET idx == { i \in DOMAIN student.preferences :
                 student.preferences[i].course_id = course.id }
  IN student.preferences[CHOOSE i \in idx : \A j \in idx : i <= j]

\* the eight terms of the score, highest priority first; all but the
\* preference score (a plain number) in 1/Scale units
Bands(student, course, cache) ==
  LET has_preference == HasPreference(student, course)
      preference == PreferenceFor(student, course)
      preference_score == IF has_preference
                          THEN _preference_score(preference) ELSE 0
      track_bonus == _interest_bonus(student, course)
      application_bonus ==
        IF ~Falsy(student.resume_text) \/ ~Falsy(student.transcript_text)
        THEN 5 * Scale ELSE 0
      skill_match == score_match(student, course, cache)
      instructor_feedback_score == _feedback_score(student, course)
      faculty_priority ==
        IF has_preference /\ preference.faculty_requested THEN Scale ELSE 0
      course_grade == IF has_preference
                      THEN _grade_to_score(preference.grade_in_course) ELSE 0
      basket_grade == IF has_preference
                      THEN _grade_to_score(preference.basket_grade_average)
                      ELSE 0
  IN <<faculty_priority, course_grade, basket_grade, preference_score,
       skill_match.weighted_score, instructor_feedback_score, track_bonus,
       application_bonus>>

\* score * Scale = b1*10^12 + b2*10^9 + b3*10^6 + b4*Scale*10^3 + b5*10^2
\*                 + b6*10 + b7 + b8, as digits <<10^12, 10^9, 10^6, 10^3,
\* 10^2, 10, 1>> (the first unbounded, then below 1000, 1000, 1000, 10, 10, 10)
ComposeScore(b) ==
  LET p0 == b[4] % 1000
      p1 == (b[4] \div 1000) % 1000
      p2 == b[4] \div 1000000
      u0 == b[7] + b[8]
      u1 == b[6] + (u0 \div 10)
      u2 == b[5] + (u1 \div 10)
      u3 == p0 * Scale + (u2 \div 10)
      u4 == b[3] + p1 * Scale + (u3 \div 1000)
      u5 == b[2] + p2 * Scale + (u4 \div 1000)
      u6 == b[1] + (u5 \div 1000)
  IN <<u6, u5 % 1000, u4 % 1000, u3 % 1000, u2 % 10, u1 % 10, u0 % 10>>

evaluate_candidate(student, course, cache) ==
  ComposeScore(Bands(student, course, cache))

\* a > b on two tuples of the same length, lexicographically
RECURSIVE TupleGreater(_, _)
TupleGreater(a, b) ==
  /\ a # <<>>
  /\ \/ Head(a) > Head(b)
     \/ Head(a) = Head(b) /\ TupleGreater(Tail(a), Tail(b))

\* ------------------------------------------------------------------ state
VARIABLES
  vacancies,     \* courses.vacancies, per course id
  preferences,   \* the student_course_preferences rows
  assignments,   \* the assignments rows: how many rows hold each value
  course_cache,  \* skill_miner._course_cache
  result,        \* what the last handler returned
  scoring,       \* the course and the two candidates being scored
  runs,          \* the matching requests in flight
  feedback       \* the instructor_feedback rows

vars == <<vacancies, preferences, assignments, course_cache, result, scoring,
          runs, feedback>>

Statuses == {"pending", "confirmed"}

\* The assignments table has no unique constraint, and a row's id plays no
\* part beyond naming the row: the table is kept as the number of rows per
\* (student_id, course_id) and status.
Pairs == Students \X Courses

EmptyTable == [k \in Pairs |-> [st \in Statuses |-> 0]]

\* number of rows with the given student and course
KeyCount(table, s, c) == table[<<s, c>>]["pending"] + table[<<s, c>>]["confirmed"]

RECURSIVE SumFn(_, _)
SumFn(f, n) == IF n = 0 THEN 0 ELSE f[n] + SumFn(f, n - 1)

\* len(course.assignments)
CourseCount(table, c) ==
  SumFn([s \in Students |-> KeyCount(table, s, c)], NumStudents)

StudentCount(table, s) ==
  SumFn([c \in Courses |-> KeyCount(table, s, c)], NumCourses)

\* db.add(Assignment(...)) for each of the <<student, course>> pairs
RECURSIVE InsertRows(_, _, _)
InsertRows(table, pairs, st) ==
  IF pairs = <<>> THEN table
  ELSE InsertRows([table EXCEPT ![Head(pairs)][st] = @ + 1], Tail(pairs), st)

\* a preference row as add_single_preference stores it
\* The columns evaluate_candidate and skill_miner read that no handler
\* writes: they hold what a new row holds.
UnsetApplicationColumns ==
  [faculty_requested |-> FALSE, grade_in_course |-> None,
   basket_grade_average |-> None]

UnsetProfileColumns ==
  [resume_text |-> <<>>, transcript_text |-> <<>>, skill_keywords |-> <<>>,
   instructor_feedback |-> <<>>]

UnsetCourseColumns == [competency_matrix |-> NoCompetencies]

Preference(s, c, rank) ==
  [student_id |-> s, course_id |-> c, rank |-> rank,
   faculty_requested |-> UnsetApplicationColumns.faculty_requested,
   grade_in_course |-> UnsetApplicationColumns.grade_in_course,
   basket_grade_average |-> UnsetApplicationColumns.basket_grade_average]

\* the ids of S among 1..n, in ascending order
Ascending(S, n) ==
  LET Member(i) == i \in S
  IN SelectSeq([i \in 1..n |-> i], Member)

\* a StudentProfile with its preferences relationship loaded
StudentProfile(prefs, s) ==
  LET mine == { p \in prefs : p.student_id = s }
      order == Ascending({ p.course_id : p \in mine }, NumCourses)
  IN [id |-> s,
      preferences |-> [i \in DOMAIN order |->
                         CHOOSE p \in mine : p.course_id = order[i]],
      interests |-> <<>>,
      resume_text |-> UnsetProfileColumns.resume_text,
      transcript_text |-> UnsetProfileColumns.transcript_text,
      skill_keywords |-> UnsetProfileColumns.skill_keywords,
      instructor_feedback |-> UnsetProfileColumns.instructor_feedback]

Course(c) ==
  [id |-> c, track |-> None,
   competency_matrix |-> UnsetCourseColumns.competency_matrix]

\* ---------------------------------------------- run_matching (the engine)
\* candidate_scores.sort(key=lambda cs: cs.score, reverse=True): Python's
\* sort is stable, so equal scores keep their encounter order
RECURSIVE InsertByScore(_, _)
InsertByScore(sorted, cs) ==
  IF sorted = <<>> THEN <<cs>>
  ELSE IF TupleGreater(cs.score, Head(sorted).score)
       THEN <<cs>> \o sorted
       ELSE <<Head(sorted)>> \o InsertByScore(Tail(sorted), cs)

\* a variant that leaves the candidates in encounter order
SortByScore_EncounterOrder(candidate_scores) == candidate_scores

RECURSIVE SortByScore(_)
SortByScore(candidate_scores) ==
  IF candidate_scores = <<>> THEN <<>>
  ELSE InsertByScore(
         SortByScore(SubSeq(candidate_scores, 1, Len(candidate_scores) - 1)),
         candidate_scores[Len(candidate_scores)])

\* a variant that forgets the assignments the course already holds
RemainingVacancies_IgnoresExisting(course_vacancies, table, c) ==
  course_vacancies

\* vacancies = course.vacancies - len([a for a in course.assignments])
RemainingVacancies(course_vacancies, table, c) ==
  course_vacancies - CourseCount(table, c)

\* a variant that also drops the students who hold any assignment
IsCandidate_UnassignedOnly(prefs, keys, s, c) ==
  /\ \E p \in prefs : p.student_id = s /\ p.course_id = c
  /\ \A c2 \in Courses : <<s, c2>> \notin keys

\* the students of the run that become candidates of course c
IsCandidate(prefs, keys, s, c) ==
  /\ \E p \in prefs : p.student_id = s /\ p.course_id = c
  /\ <<s, c>> \notin keys

\* course.vacancies = max(0, course.vacancies - 1), once per selected candidate
\* a variant that lowers the counter once per course, not once per selection
Decrement_OncePerCourse(v, k) == IF k = 0 THEN v ELSE Max(0, v - 1)

RECURSIVE Decrement(_, _)
Decrement(v, k) == IF k = 0 THEN v ELSE Decrement(Max(0, v - 1), k - 1)

\* a variant that reports the applicants of a course without vacancies as
\* skipped instead of passing the course over
MatchCourse_ReportsFull(acc, c, students, prefs, table) ==
  LET vacs == Max(0, acc.vacancies[c] - CourseCount(table, c))
      Eligible(s) == IsCandidate(prefs, acc.keys, s, c)
      eligible == SelectSeq(students, Eligible)
      candidate_scores ==
        [i \in DOMAIN eligible |->
           [student |-> eligible[i],
            score |-> evaluate_candidate(StudentProfile(prefs, eligible[i]),
                                         Course(c), acc.cache)]]
      sorted == SortByScore(candidate_scores)
      selected == SubSeq(sorted, 1, Min(vacs, Len(sorted)))
      rest == SubSeq(sorted, Min(vacs, Len(sorted)) + 1, Len(sorted))
  IN [assignments |-> acc.assignments
                        \o [i \in DOMAIN selected |-> <<selected[i].student, c>>],
      skipped_students |-> acc.skipped_students
                             \o [i \in DOMAIN rest |-> rest[i].student],
      vacancies |-> [acc.vacancies EXCEPT ![c] = Decrement(@, Len(selected))],
      keys |-> acc.keys \cup { <<selected[i].student, c>> : i \in DOMAIN selected },
      cache |-> IF eligible = <<>> THEN acc.cache
                ELSE CacheAfter(Course(c), acc.cache)]

\* a variant that scores the applicants of a course without vacancies
\* before passing the course over
MatchCourse_ScoresFull(acc, c, students, prefs, table) ==
  LET vacs == Max(0, RemainingVacancies(acc.vacancies[c], table, c))
      Eligible(s) == IsCandidate(prefs, acc.keys, s, c)
      eligible == SelectSeq(students, Eligible)
      candidate_scores ==
        [i \in DOMAIN eligible |->
           [student |-> eligible[i],
            score |-> evaluate_candidate(StudentProfile(prefs, eligible[i]),
                                         Course(c), acc.cache)]]
      sorted == SortByScore(candidate_scores)
      selected == SubSeq(sorted, 1, Min(vacs, Len(sorted)))
      rest == IF vacs = 0 THEN <<>>
              ELSE SubSeq(sorted, Min(vacs, Len(sorted)) + 1, Len(sorted))
  IN [assignments |-> acc.assignments
                        \o [i \in DOMAIN selected |-> <<selected[i].student, c>>],
      skipped_students |-> acc.skipped_students
                             \o [i \in DOMAIN rest |-> rest[i].student],
      vacancies |-> [acc.vacancies EXCEPT ![c] = Decrement(@, Len(selected))],
      keys |-> acc.keys \cup { <<selected[i].student, c>> : i \in DOMAIN selected },
      cache |-> IF eligible = <<>> THEN acc.cache
                ELSE CacheAfter(Course(c), acc.cache)]

\* one iteration of "for course in courses"; acc is the state of the loop
MatchCourse(acc, c, students, prefs, table) ==
  LET vacs == RemainingVacancies(acc.vacancies[c], table, c)
      Eligible(s) == IsCandidate(prefs, acc.keys, s, c)
      eligible == SelectSeq(students, Eligible)
      candidate_scores ==
        [i \in DOMAIN eligible |->
           [student |-> eligible[i],
            score |-> evaluate_candidate(StudentProfile(prefs, eligible[i]),
                                         Course(c), acc.cache)]]
      sorted == SortByScore(candidate_scores)
      selected == SubSeq(sorted, 1, Min(vacs, Len(sorted)))
      rest == SubSeq(sorted, Min(vacs, Len(sorted)) + 1, Len(sorted))
  IN IF vacs <= 0 THEN acc
     ELSE [assignments |-> acc.assignments
                             \o [i \in DOMAIN selected |-> <<selected[i].student, c>>],
           skipped_students |-> acc.skipped_students
                                  \o [i \in DOMAIN rest |-> rest[i].student],
           vacancies |-> [acc.vacancies EXCEPT ![c] = Decrement(@, Len(selected))],
           keys |-> acc.keys \cup { <<selected[i].student, c>> : i \in DOMAIN selected },
           cache |-> IF eligible = <<>> THEN acc.cache
                     ELSE CacheAfter(Course(c), acc.cache)]

RECURSIVE MatchCourses(_, _, _, _, _)
MatchCourses(acc, courses, students, prefs, table) ==
  IF courses = <<>> THEN acc
  ELSE MatchCourses(MatchCourse(acc, Head(courses), students, prefs, table),
                    Tail(courses), students, prefs, table)

\* request.course_ids: None, or a list of ids
CourseIdsNone == [none |-> TRUE, ids |-> {}]
CourseIdsList(ids) == [none |-> FALSE, ids |-> ids]
CourseIdInputs == {CourseIdsNone} \cup { CourseIdsList(ids) : ids \in SUBSET Courses }

\* courses_query.all(): every course unless a non-empty list filters them
QueryCourses(course_ids) ==
  Ascending(IF ~course_ids.none /\ course_ids.ids # {}
            THEN course_ids.ids \cap Courses ELSE Courses, NumCourses)

\* the StudentProfile join: students with a preference for one of the courses
QueryStudents(prefs, courses) ==
  Ascending({ s \in Students :
                \E p \in prefs : /\ p.student_id = s
                                 /\ \E i \in DOMAIN courses : courses[i] = p.course_id },
            NumStudents)

ExistingAssignmentKeys(table) ==
  { k \in Pairs : KeyCount(table, k[1], k[2]) > 0 }

\* run_matching over the courses given explicitly
RunOver(vacs, prefs, table, cache, courses) ==
  MatchCourses([assignments |-> <<>>, skipped_students |-> <<>>,
                vacancies |-> vacs, keys |-> ExistingAssignmentKeys(table),
                cache |-> cache],
               courses, QueryStudents(prefs, courses), prefs, table)

run_matching(vacs, prefs, table, cache, course_ids) ==
  RunOver(vacs, prefs, table, cache, QueryCourses(course_ids))

\* --------------------------------------------------------------- handlers
\* A request that a handler rejects (HTTPException before any write) leaves
\* the database as it was; the actions below are enabled for the requests
\* the handler carries out.
\* result: the handler that ran last and what it returned (MatchResult's
\* assignments and skipped_students; the two scores of a scoring)
Response(op, created, skipped, scores) ==
  [op |-> op, status_code |-> 200, assignments |-> created,
   skipped_students |-> skipped, scores |-> scores]

\* raise HTTPException(status_code=...)
HTTPException(op, status_code) ==
  [Response(op, <<>>, <<>>, <<>>) EXCEPT !.status_code = status_code]

NoResponse == Response("none", <<>>, <<>>, <<>>)

\* Course.professor_id (nullable): the odd courses belong to professor 101,
\* the even ones to nobody
Professors == {101}
NoProfessor == 0
professor_id == [c \in Courses |-> IF c % 2 = 1 THEN 101 ELSE NoProfessor]

NoScoring == [course |-> Course(1), candidates |-> <<>>]

\* a variant that behaves as if (student_id, course_id) were a unique key
\* and the second insert of a pair were merged into the first
RECURSIVE CommitRows_Unique(_, _)
CommitRows_Unique(table, created) ==
  IF created = <<>> THEN table
  ELSE CommitRows_Unique(
         IF KeyCount(table, Head(created)[1], Head(created)[2]) > 0 THEN table
         ELSE InsertRows(table, <<Head(created)>>, "pending"),
         Tail(created))

\* a variant in which the rows of a run are stored as confirmed
CommitRows_Confirmed(table, created) == InsertRows(table, created, "confirmed")

\* db.commit() of a request that ran run_matching: the new rows are
\* inserted, and every Course whose vacancies attribute the run changed is
\* written back
CommitRows(table, created) == InsertRows(table, created, "pending")

CommitVacancies(stored, seen, in_memory) ==
  [c \in Courses |-> IF in_memory[c] # seen[c] THEN in_memory[c] ELSE stored[c]]

\* POST /admin/match, one request at a time
StartMatch(course_ids) ==
  LET run == run_matching(vacancies, preferences, assignments, course_cache,
                          course_ids)
  IN /\ assignments' = CommitRows(assignments, run.assignments)
     /\ vacancies' = CommitVacancies(vacancies, vacancies, run.vacancies)
     /\ course_cache' = run.cache
     /\ result' = Response("start_match", run.assignments,
                           run.skipped_students, <<>>)
     /\ UNCHANGED <<preferences, scoring, runs, feedback>>

\* POST /admin/assignments: 400 when the student is assigned anywhere or the
\* course is full
\* a variant that looks only for an assignment of the student to this course
CreateAssignmentAllowed_SamePairOnly(table, vacs, s, c) ==
  /\ KeyCount(table, s, c) = 0
  /\ CourseCount(table, c) < vacs[c]

CreateAssignmentAllowed(table, vacs, s, c) ==
  /\ StudentCount(table, s) = 0
  /\ CourseCount(table, c) < vacs[c]

CreateAssignment(s, c, st) ==
  /\ CreateAssignmentAllowed(assignments, vacancies, s, c)
  /\ assignments' = InsertRows(assignments, <<<<s, c>>>>, st)
  /\ result' = Response("create_assignment", <<>>, <<>>, <<>>)
  /\ UNCHANGED <<vacancies, preferences, course_cache, scoring, runs, feedback>>

\* POST /admin/assignments with any ids, the rejections included: 404 for an
\* unknown student or course, 400 as above, and nothing is written then
AssignmentStudentIds == Students \cup {NumStudents + 1}
AssignmentCourseIds == Courses \cup {NumCourses + 1}

RequestAssignment(s, c, st) ==
  /\ IF s \notin Students \/ c \notin Courses
     THEN /\ result' = HTTPException("create_assignment", 404)
          /\ UNCHANGED assignments
     ELSE IF ~CreateAssignmentAllowed(assignments, vacancies, s, c)
     THEN /\ result' = HTTPException("create_assignment", 400)
          /\ UNCHANGED assignments
     ELSE /\ result' = Response("create_assignment", <<>>, <<>>, <<>>)
          /\ assignments' = InsertRows(assignments, <<<<s, c>>>>, st)
  /\ UNCHANGED <<vacancies, preferences, course_cache, scoring, runs, feedback>>

\* a variant of the override that never finds the existing row
AlreadyAssigned_Never(table, s, c) == FALSE

\* POST /professors/courses/{course_id}/assign/{student_id}: 404 unless the
\* course is the professor's, 400 when the pair is assigned already
AlreadyAssigned(table, s, c) == KeyCount(table, s, c) > 0

AssignStudentToCourse(current_user, c, s) ==
  /\ professor_id[c] = current_user
  /\ ~AlreadyAssigned(assignments, s, c)
  /\ assignments' = InsertRows(assignments, <<<<s, c>>>>, "confirmed")
  /\ result' = Response("assign_student_to_course", <<>>, <<>>, <<>>)
  /\ UNCHANGED <<vacancies, preferences, course_cache, scoring, runs, feedback>>

\* DELETE /professors/courses/{course_id}/assignments/{assignment_id}: the id
\* names a row of the pair target with status st; 404 unless the course is the professor's and the
\* row is one of the course's
RemoveAssignment(current_user, c, target, st) ==
  /\ professor_id[c] = current_user
  /\ assignments[target][st] > 0
  /\ target[2] = c
  /\ assignments' = [assignments EXCEPT ![target][st] = @ - 1]
  /\ result' = Response("remove_assignment", <<>>, <<>>, <<>>)
  /\ UNCHANGED <<vacancies, preferences, course_cache, scoring, runs, feedback>>

\* POST /students/preferences/add, by the user whose profile is s: 400 when
\* the student has applied to the course or has used the rank
AddSinglePreference(s, c, rank) ==
  /\ ~\E p \in preferences : p.student_id = s /\ p.course_id = c
  /\ ~\E p \in preferences : p.student_id = s /\ p.rank = rank
  /\ preferences' = preferences \cup {Preference(s, c, rank)}
  /\ result' = Response("add_single_preference", <<>>, <<>>, <<>>)
  /\ UNCHANGED <<vacancies, assignments, course_cache, scoring, runs, feedback>>

\* POST /feedback/, by an administrator, for the assignment row of the pair
\* k: 404 when there is no such row; the row's feedback is created, or its
\* rating replaced.  The assignment itself is only read.
FeedbackRatings == {4, 5}

SubmitFeedback(k, rating) ==
  /\ KeyCount(assignments, k[1], k[2]) > 0
  /\ feedback' = { f \in feedback : <<f.student_id, f.course_id>> # k }
                   \cup {[student_id |-> k[1], course_id |-> k[2], rating |-> rating]}
  /\ result' = Response("submit_feedback", <<>>, <<>>, <<>>)
  /\ UNCHANGED <<vacancies, preferences, assignments, course_cache, scoring, runs>>

\* ------------------------------------------------- the sequential system
\* courses exist with any vacancy count; nobody has applied or been assigned
Init ==
  /\ vacancies \in [Courses -> 0..MaxVacancies]
  /\ preferences = {}
  /\ assignments = EmptyTable
  /\ course_cache = <<>>
  /\ result = NoResponse
  /\ scoring = NoScoring
  /\ runs = <<>>
  /\ feedback = {}

DoAddSinglePreference ==
  \E s \in Students, c \in Courses, rank \in Ranks : AddSinglePreference(s, c, rank)

DoStartMatch == \E course_ids \in CourseIdInputs : StartMatch(course_ids)

DoCreateAssignment ==
  \E s \in Students, c \in Courses, st \in Statuses : CreateAssignment(s, c, st)

DoAssignStudentToCourse ==
  \E u \in Professors, c \in Courses, s \in Students : AssignStudentToCourse(u, c, s)

DoRemoveAssignment ==
  \E u \in Professors, c \in Courses, target \in Pairs, st \in Statuses :
     RemoveAssignment(u, c, target, st)

Next ==
  \/ DoAddSinglePreference
  \/ DoStartMatch
  \/ DoCreateAssignment
  \/ DoAssignStudentToCourse
  \/ DoRemoveAssignment

Spec == Init /\ [][Next]_vars

\* the administrator's paths only: applications, matching runs, manual
\* assignments
NextAdmin ==
  \/ DoAddSinglePreference
  \/ DoStartMatch
  \/ DoCreateAssignment

SpecAdmin == Init /\ [][NextAdmin]_vars

\* ------------------------------------- professors' overrides and removals
\* Every student has either not applied, or applied to every course in the
\* order of the course ids, or in the reverse order.
Applications(s, choice) ==
  CASE choice = "none" -> {}
    [] choice = "ascending" -> { Preference(s, c, c) : c \in Courses }
    [] choice = "descending" -> { Preference(s, c, NumCourses + 1 - c) : c \in Courses }

InitOps ==
  /\ vacancies \in [Courses -> 0..MaxVacancies]
  /\ \E choice \in [Students -> {"none", "ascending", "descending"}] :
        preferences = UNION { Applications(s, choice[s]) : s \in Students }
  /\ assignments = EmptyTable
  /\ course_cache = <<>>
  /\ result = NoResponse
  /\ scoring = NoScoring
  /\ runs = <<>>
  /\ feedback = {}

NextOps ==
  \/ DoStartMatch
  \/ DoCreateAssignment
  \/ DoAssignStudentToCourse
  \/ DoRemoveAssignment

SpecOps == InitOps /\ [][NextOps]_vars

\* --------------------------------- assignments and the feedback on them
\* The administrator's manual assignments (pending by default), the
\* professors' overrides and the feedback on assignments.  No row is removed
\* here, so a pair names one assignment row throughout.
DoSubmitFeedback ==
  \E k \in Pairs, rating \in FeedbackRatings : SubmitFeedback(k, rating)

NextStatus ==
  \/ DoCreateAssignment
  \/ DoAssignStudentToCourse
  \/ DoSubmitFeedback

SpecStatus == InitOps /\ [][NextStatus]_vars

\* ------------------------------- manual assignments, accepted or rejected
DoRequestAssignment ==
  \E s \in AssignmentStudentIds, c \in AssignmentCourseIds, st \in Statuses :
     RequestAssignment(s, c, st)

NextManual ==
  \/ DoRequestAssignment
  \/ DoAssignStudentToCourse
  \/ DoRemoveAssignment

SpecManual == InitOps /\ [][NextManual]_vars

\* --------------------------------------------- overlapping match requests
\* Two POST /admin/match requests, each with its own session: run_matching
\* reads and computes (BeginMatch), then the handler adds the rows and
\* commits (CommitMatch).  Nothing in the code locks between the two.
RunIds == {1, 2}

NoRun == [pc |-> "idle", overlapped |-> FALSE, course_ids |-> CourseIdsNone,
          assignments |-> <<>>, skipped_students |-> <<>>,
          seen_vacancies |-> [c \in Courses |-> 0],
          vacancies |-> [c \in Courses |-> 0]]

BeginMatch(r, course_ids) ==
  LET run == run_matching(vacancies, preferences, assignments, course_cache,
                          course_ids)
      overlap == \E o \in RunIds \ {r} : runs[o].pc = "computed"
  IN /\ runs[r].pc = "idle"
     /\ runs' = [o \in RunIds |->
                   IF o = r
                   THEN [pc |-> "computed", overlapped |-> overlap,
                         course_ids |-> course_ids,
                         assignments |-> run.assignments,
                         skipped_students |-> run.skipped_students,
                         seen_vacancies |-> vacancies,
                         vacancies |-> run.vacancies]
                   ELSE IF runs[o].pc = "computed"
                        THEN [runs[o] EXCEPT !.overlapped = TRUE]
                        ELSE runs[o]]
     /\ course_cache' = run.cache
     /\ UNCHANGED <<vacancies, preferences, assignments, result, scoring, feedback>>

CommitMatch(r) ==
  /\ runs[r].pc = "computed"
  /\ assignments' = CommitRows(assignments, runs[r].assignments)
  /\ vacancies' = CommitVacancies(vacancies, runs[r].seen_vacancies,
                                  runs[r].vacancies)
  /\ runs' = [runs EXCEPT ![r].pc = "done"]
  /\ result' = Response("start_match", runs[r].assignments,
                        runs[r].skipped_students, <<>>)
  /\ UNCHANGED <<preferences, course_cache, scoring, feedback>>

InitConc ==
  /\ vacancies \in [Courses -> 0..MaxVacancies]
  /\ \E choice \in [Students -> {"none", "ascending", "descending"}] :
        preferences = UNION { Applications(s, choice[s]) : s \in Students }
  /\ assignments = EmptyTable
  /\ course_cache = <<>>
  /\ result = NoResponse
  /\ scoring = NoScoring
  /\ runs = [r \in RunIds |-> NoRun]
  /\ feedback = {}

DoBeginMatch == \E r \in RunIds, course_ids \in CourseIdInputs : BeginMatch(r, course_ids)

DoCommitMatch == \E r \in RunIds : CommitMatch(r)

NextConc ==
  \/ DoBeginMatch
  \/ DoCommitMatch

SpecConc == InitConc /\ [][NextConc]_vars

\* ---------------------------------------------------- scoring two candidates
\* The course being scored, and what a candidate's profile can hold.
ScoredCourse ==
  [id |-> 1, track |-> "Machine Learning & Analytics",
   competency_matrix |-> [kind |-> "dict",
                          items |-> <<<<"machine", 5, TRUE>>, <<"learning", 5, TRUE>>>>]]

PlainProfile ==
  [interests |-> <<>>, resume_text |-> <<>>, transcript_text |-> <<>>,
   skill_keywords |-> <<>>, instructor_feedback |-> <<>>]

RichProfile ==
  [interests |-> <<"  machine learning & analytics ", " optimization ">>,
   resume_text |-> <<"Experienced", "in", "machine", "learning", "and", "optimization">>,
   transcript_text |-> <<>>,
   skill_keywords |-> <<>>,
   instructor_feedback |-> <<[course_id |-> 1, rating |-> 5],
                             [course_id |-> 1, rating |-> 5]>>]

GradeInputs == {None, "A", "B", "B-", "90", "90.05"}
BasketInputs == {None, "A+"}
RankInputs == {1, 2, 3, -100000000}

ApplicationInputs ==
  [faculty_requested : BOOLEAN, grade_in_course : GradeInputs,
   basket_grade_average : BasketInputs, rank : RankInputs,
   profile : {PlainProfile, RichProfile}]

Candidate(id, a) ==
  [id |-> id,
   preferences |-> <<[student_id |-> id, course_id |-> ScoredCourse.id,
                      rank |-> a.rank, faculty_requested |-> a.faculty_requested,
                      grade_in_course |-> a.grade_in_course,
                      basket_grade_average |-> a.basket_grade_average]>>,
   interests |-> a.profile.interests, resume_text |-> a.profile.resume_text,
   transcript_text |-> a.profile.transcript_text,
   skill_keywords |-> a.profile.skill_keywords,
   instructor_feedback |-> a.profile.instructor_feedback]

InitScore ==
  /\ vacancies = [c \in Courses |-> 0]
  /\ preferences = {}
  /\ assignments = EmptyTable
  /\ course_cache = <<>>
  /\ result = NoResponse
  /\ \E a \in ApplicationInputs, b \in ApplicationInputs :
        scoring = [course |-> ScoredCourse,
                   candidates |-> <<Candidate(1, a), Candidate(2, b)>>]
  /\ runs = <<>>
  /\ feedback = {}

\* evaluate_candidate for each of the two, as the loop of run_matching does
Evaluate ==
  /\ result.op = "none"
  /\ result' = Response("evaluate_candidate", <<>>, <<>>,
                 <<evaluate_candidate(scoring.candidates[1], scoring.course, course_cache),
                   evaluate_candidate(scoring.candidates[2], scoring.course,
                                      CacheAfter(scoring.course, course_cache))>>)
  /\ course_cache' = CacheAfter(scoring.course, course_cache)
  /\ UNCHANGED <<vacancies, preferences, assignments, scoring, runs, feedback>>

NextScore == Evaluate

SpecScore == InitScore /\ [][NextScore]_vars

\* ================================================================ properties
\* how many of the assignments a run returned are for course c
Created(response, c) ==
  Cardinality({ i \in DOMAIN response.assignments : response.assignments[i][2] = c })

\* a student who applied to course c and holds no assignment to it
RemainingCandidate(table, s, c) ==
  /\ \E p \in preferences : p.student_id = s /\ p.course_id = c
  /\ KeyCount(table, s, c) = 0

\* C1: a committed run of run_matching creates, for every course, at most
\* (course.vacancies - assignments the course already holds) assignments,
\* both read at the start of the run, and none when that difference is <= 0.
C1_VacancyConservation ==
  [][result'.op = "start_match" =>
       \A c \in Courses :
          /\ Created(result', c) <= Max(0, vacancies[c] - CourseCount(assignments, c))
          /\ CourseCount(assignments', c)
               = CourseCount(assignments, c) + Created(result', c)]_vars

\* a run has just added to a course that already held an assignment, while
\* a full course with an applicant left has received nothing
C1_Witness ==
  /\ result.op = "start_match"
  /\ \E c \in Courses :
        /\ Created(result, c) >= 1
        /\ CourseCount(assignments, c) > Created(result, c)
  /\ \E c \in Courses, s \in Students :
        /\ Created(result, c) = 0
        /\ CourseCount(assignments, c) >= 1
        /\ CourseCount(assignments, c) >= vacancies[c]
        /\ RemainingCandidate(assignments, s, c)

\* C2: from a state where no student holds more than one assignment, a
\* committed run of run_matching leaves no student with more than one.
C2_SingleAssignmentPerStudent ==
  [][(/\ result'.op = "start_match"
      /\ \A s \in Students : StudentCount(assignments, s) <= 1)
       => \A s \in Students : StudentCount(assignments', s) <= 1]_vars

\* C3: after any sequence of start_match and create_assignment requests, no
\* course holds more assignments than its stored vacancy count.
C3_CourseWithinStoredVacancies ==
  \A c \in Courses : CourseCount(assignments, c) <= vacancies[c]

\* C8 as stated: a run over a course that is full already (it holds at least
\* one assignment and as many as its vacancies) creates nothing for it and
\* returns every remaining candidate of the course in the skipped list.
C8_FullCourseCandidatesSkipped ==
  [][\A course_ids \in CourseIdInputs :
       StartMatch(course_ids) =>
         \A i \in DOMAIN QueryCourses(course_ids) :
            LET c == QueryCourses(course_ids)[i]
            IN (/\ CourseCount(assignments, c) >= 1
                /\ CourseCount(assignments, c) >= vacancies[c])
                 => /\ Created(result', c) = 0
                    /\ \A s \in Students :
                          RemainingCandidate(assignments, s, c)
                            => \E j \in DOMAIN result'.skipped_students :
                                  result'.skipped_students[j] = s]_vars

\* C8, amended: a run creates nothing for a course that is full at its
\* start, and the course puts nobody on the skipped list: every entry of the
\* list is a candidate of a course that had room at the start of the run and
\* who was not selected for that course.
C8_FullCourseContributesNothing ==
  [][result'.op = "start_match" =>
       /\ \A c \in Courses :
             CourseCount(assignments, c) >= vacancies[c] => Created(result', c) = 0
       /\ \A j \in DOMAIN result'.skipped_students :
             \E c \in Courses :
                /\ CourseCount(assignments, c) < vacancies[c]
                /\ RemainingCandidate(assignments, result'.skipped_students[j], c)
                /\ KeyCount(assignments', result'.skipped_students[j], c) = 0]_vars

\* a run has just returned nothing at all although every course is full,
\* holds an assignment and still has a candidate without one
C8_Witness ==
  /\ result.op = "start_match"
  /\ result.assignments = <<>>
  /\ result.skipped_students = <<>>
  /\ \A c \in Courses :
        /\ CourseCount(assignments, c) >= 1
        /\ CourseCount(assignments, c) >= vacancies[c]
        /\ \E s \in Students : RemainingCandidate(assignments, s, c)

\* C9: after any sequence of start_match, create_assignment,
\* assign_student_to_course and remove_assignment requests, one at a time,
\* no two assignments share a (student, course) pair.
C9_UniquePair ==
  \A k \in Pairs : KeyCount(assignments, k[1], k[2]) <= 1

\* a run has just added to a course one of whose applicants already holds a
\* confirmed assignment to it
C9_Witness ==
  /\ result.op = "start_match"
  /\ \E s \in Students, c \in Courses :
        /\ assignments[<<s, c>>]["confirmed"] = 1
        /\ \E p \in preferences : p.student_id = s /\ p.course_id = c
        /\ Created(result, c) >= 1

\* C10: when two runs have both read before either committed and both
\* created assignments for the same course, then once both have committed
\* the course holds two assignments for one pair or more assignments than
\* the vacancies the runs read.
C10_OverlapOverfillsOrDuplicates ==
  \A c \in Courses :
     (/\ \A r \in RunIds : runs[r].pc = "done" /\ runs[r].overlapped
      /\ \A r \in RunIds :
            \E i \in DOMAIN runs[r].assignments : runs[r].assignments[i][2] = c)
       => \/ \E s \in Students : KeyCount(assignments, s, c) >= 2
          \/ \E r \in RunIds : CourseCount(assignments, c) > runs[r].seen_vacancies[c]

\* both overlapping runs have committed and a course holds the same pair twice
C10_Witness ==
  /\ \A r \in RunIds : runs[r].pc = "done" /\ runs[r].overlapped
  /\ \E c \in Courses :
        /\ \A r \in RunIds :
              \E i \in DOMAIN runs[r].assignments : runs[r].assignments[i][2] = c
        /\ \E s \in Students : KeyCount(assignments, s, c) = 2

\* --------------------------------------------------- scoring properties
\* the bands, the application and the score of the i-th scored candidate
BandsOf(i) == Bands(scoring.candidates[i], scoring.course, course_cache)
ApplicationOf(i) == PreferenceFor(scoring.candidates[i], scoring.course)
ScoreOf(i) == result.scores[i]

\* both candidates gave a rank a student can mean, 1 or more
OrdinaryRanks == \A i \in {1, 2} : ApplicationOf(i).rank >= 1

\* C4: of two candidates of a course, the one whose band tuple (faculty
\* flag, course grade, basket grade, preference score, skill score, feedback
\* score, track bonus, completeness bonus) is lexicographically greater gets
\* the strictly higher score; stated here for ranks of 1 or more only.
C4_LexicographicOrder ==
  (result.op = "evaluate_candidate" /\ OrdinaryRanks)
    => \A i \in {1, 2}, j \in {1, 2} :
          TupleGreater(BandsOf(i), BandsOf(j)) => TupleGreater(ScoreOf(i), ScoreOf(j))

\* C5: a candidate whose application is faculty-requested scores strictly
\* higher than one whose application is not, whatever the other bands.
C5_FacultyRequestDominates ==
  result.op = "evaluate_candidate"
    => \A i \in {1, 2}, j \in {1, 2} :
          (ApplicationOf(i).faculty_requested /\ ~ApplicationOf(j).faculty_requested)
            => TupleGreater(ScoreOf(i), ScoreOf(j))

\* C6: of two candidates with the same faculty flag, the one whose
\* grade_in_course converts to the higher grade score scores strictly
\* higher, whatever the lower bands; stated here for ranks of 1 or more only.
C6_CourseGradeDominates ==
  (result.op = "evaluate_candidate" /\ OrdinaryRanks)
    => \A i \in {1, 2}, j \in {1, 2} :
          (/\ ApplicationOf(i).faculty_requested = ApplicationOf(j).faculty_requested
           /\ _grade_to_score(ApplicationOf(i).grade_in_course)
                > _grade_to_score(ApplicationOf(j).grade_in_course))
            => TupleGreater(ScoreOf(i), ScoreOf(j))

\* ------------------------------------------------ assignment status
\* how many of the assignments a run returned are for the pair k
CreatedPair(response, k) ==
  Cardinality({ i \in DOMAIN response.assignments : response.assignments[i] = k })

\* C11: every row a committed run adds is pending and the run touches no
\* confirmed row; no step turns a confirmed row into a pending one; and the
\* rows of a pair become fewer only in a remove_assignment step.
C11_StatusLifecycle ==
  [][\A k \in Pairs :
       /\ result'.op = "start_match"
            => /\ assignments'[k]["confirmed"] = assignments[k]["confirmed"]
               /\ assignments'[k]["pending"]
                    = assignments[k]["pending"] + CreatedPair(result', k)
       /\ ~(/\ assignments'[k]["confirmed"] < assignments[k]["confirmed"]
            /\ assignments'[k]["pending"] > assignments[k]["pending"])
       /\ (assignments'[k]["confirmed"] + assignments'[k]["pending"]
             < assignments[k]["confirmed"] + assignments[k]["pending"])
            => result'.op = "remove_assignment"]_vars

\* a run has just stored a pending row while a confirmed row exists
C11_Witness ==
  /\ result.op = "start_match"
  /\ \E k \in Pairs : CreatedPair(result, k) = 1 /\ assignments[k]["pending"] = 1
  /\ \E k \in Pairs : assignments[k]["confirmed"] = 1

\* a step of create_assignment, assign_student_to_course or submit_feedback
\* after which the pair k has a confirmed assignment
Confirms(k) ==
  /\ \/ DoCreateAssignment
     \/ DoAssignStudentToCourse
     \/ DoSubmitFeedback
  /\ assignments'[k]["confirmed"] > 0

\* C12: whenever a pair's assignment is pending, one of create_assignment,
\* assign_student_to_course and submit_feedback can be carried out so that
\* the pair's assignment is confirmed afterwards.
C12_PendingCanBeConfirmed ==
  \A k \in Pairs :
     (assignments[k]["pending"] > 0 /\ assignments[k]["confirmed"] = 0)
       => ENABLED Confirms(k)

\* C13: a create_assignment request is answered with an error and writes
\* nothing when the student or the course is unknown, the student holds an
\* assignment to any course, or the course holds as many assignments as its
\* vacancies; any other request adds exactly one row, for the requested pair.
C13_ManualAssignment ==
  [][\A s \in AssignmentStudentIds, c \in AssignmentCourseIds, st \in Statuses :
       RequestAssignment(s, c, st) =>
         IF \/ s \notin Students
            \/ c \notin Courses
            \/ \E c2 \in Courses : KeyCount(assignments, s, c2) > 0
            \/ CourseCount(assignments, c) >= vacancies[c]
         THEN /\ result'.status_code \in {400, 404}
              /\ assignments' = assignments
         ELSE /\ result'.status_code = 200
              /\ assignments' = [assignments EXCEPT ![<<s, c>>][st] = @ + 1]]_vars

\* a request has just been rejected while some student holds an assignment
\* and some course with an assignment is full
C13_Witness ==
  /\ result.op = "create_assignment"
  /\ result.status_code = 400
  /\ \E s \in Students : StudentCount(assignments, s) >= 1
  /\ \E c \in Courses :
        CourseCount(assignments, c) >= 1 /\ CourseCount(assignments, c) >= vacancies[c]

\* ------------------------------------- two candidates that differ in skills
\* competency_matrix texts: weights 0.5/0.5 (the tests' matrix), a weight of
\* 0 beside a positive one, all weights 0, a negative weight (stored as 0), a
\* value that is no number (stored as 1.0), a JSON list, a comma-separated
\* text, and no matrix
CompetencyInputs ==
  { [kind |-> "dict", items |-> <<<<"machine", 5, TRUE>>, <<"learning", 5, TRUE>>>>],
    [kind |-> "dict", items |-> <<<<"machine", 0, TRUE>>, <<"learning", 10, TRUE>>>>],
    [kind |-> "dict", items |-> <<<<"machine", 0, TRUE>>, <<"learning", 0, TRUE>>>>],
    [kind |-> "dict", items |-> <<<<" Machine ", -30, TRUE>>, <<"learning", 5, TRUE>>>>],
    [kind |-> "dict", items |-> <<<<"machine", 0, FALSE>>, <<"learning", 5, TRUE>>>>],
    [kind |-> "list", items |-> <<" Machine ", "Learning">>],
    [kind |-> "csv", items |-> <<"machine", " ", "learning">>],
    NoCompetencies }

\* StudentProfile.skill_keywords, as the list it deserializes to
KeywordInputs ==
  { <<>>, <<"machine">>, <<"Learning">>, <<" Machine ", "Learning">>,
    <<"optimization">>, <<"finance", " ">> }

SkillCourse(matrix) ==
  [id |-> 1, track |-> "Machine Learning & Analytics", competency_matrix |-> matrix]

SkillApplicationInputs ==
  [faculty_requested : {FALSE}, grade_in_course : {None, "A"},
   basket_grade_average : {None}, rank : {1, 2},
   profile : {PlainProfile, RichProfile}]

WithKeywords(candidate, keywords) ==
  [candidate EXCEPT !.skill_keywords = keywords]

InitSkill ==
  /\ vacancies = [c \in Courses |-> 0]
  /\ preferences = {}
  /\ assignments = EmptyTable
  /\ course_cache = <<>>
  /\ result = NoResponse
  /\ \E a \in SkillApplicationInputs, matrix \in CompetencyInputs,
        k1 \in KeywordInputs, k2 \in KeywordInputs :
        scoring = [course |-> SkillCourse(matrix),
                   candidates |-> <<WithKeywords(Candidate(1, a), k1),
                                    WithKeywords(Candidate(2, a), k2)>>]
  /\ runs = <<>>
  /\ feedback = {}

NextSkill == Evaluate

SpecSkill == InitSkill /\ [][NextSkill]_vars

\* --------------------------------------------------------- skill properties
\* the candidate's keywords that are keys of the course's competency map
MatchedSkills(i) ==
  student_keywords(scoring.candidates[i])
    \cap DOMAIN _parse_competencies(scoring.course, course_cache)

\* the two candidates agree on every scoring input but skill_keywords
SameButSkills(i, j) ==
  /\ WithKeywords(scoring.candidates[i], <<>>).interests
       = WithKeywords(scoring.candidates[j], <<>>).interests
  /\ scoring.candidates[i].resume_text = scoring.candidates[j].resume_text
  /\ scoring.candidates[i].transcript_text = scoring.candidates[j].transcript_text
  /\ scoring.candidates[i].instructor_feedback
       = scoring.candidates[j].instructor_feedback
  /\ [ApplicationOf(i) EXCEPT !.student_id = 0]
       = [ApplicationOf(j) EXCEPT !.student_id = 0]

\* C14: of two candidates of a course that agree on every other scoring
\* input, the one with at least one keyword among the keys of the course's
\* competency map scores strictly higher than the one with none.
C14_SkillMatchScoresHigher ==
  result.op = "evaluate_candidate"
    => \A i \in {1, 2}, j \in {1, 2} :
          (SameButSkills(i, j) /\ MatchedSkills(i) # {} /\ MatchedSkills(j) = {})
            => TupleGreater(ScoreOf(i), ScoreOf(j))

\* ---------------------------- two candidates that differ in feedback history
\* ratings as stored: Integer column, values outside 1..5 included
RatingInputs == {0, 4, 5}

FeedbackEntries == [course_id : {1, 2}, rating : RatingInputs]

MaxFeedback == 2

FeedbackInputs ==
  {<<>>} \cup UNION { [1..n -> FeedbackEntries] : n \in 1..MaxFeedback }

FeedbackApplicationInputs ==
  [faculty_requested : {FALSE}, grade_in_course : {None},
   basket_grade_average : {None}, rank : {1, 2},
   profile : {PlainProfile, RichProfile}]

WithFeedback(candidate, entries) ==
  [candidate EXCEPT !.instructor_feedback = entries]

InitFeedback ==
  /\ vacancies = [c \in Courses |-> 0]
  /\ preferences = {}
  /\ assignments = EmptyTable
  /\ course_cache = <<>>
  /\ result = NoResponse
  /\ \E a \in FeedbackApplicationInputs,
        f1 \in FeedbackInputs, f2 \in FeedbackInputs :
        scoring = [course |-> ScoredCourse,
                   candidates |-> <<WithFeedback(Candidate(1, a), f1),
                                    WithFeedback(Candidate(2, a), f2)>>]
  /\ runs = <<>>
  /\ feedback = {}

NextFeedback == Evaluate

SpecFeedback == InitFeedback /\ [][NextFeedback]_vars

\* ------------------------------------------------------ feedback properties
FeedbackOf(i) == scoring.candidates[i].instructor_feedback

\* the two candidates agree on every scoring input but instructor_feedback
SameButFeedback(i, j) ==
  /\ scoring.candidates[i].interests = scoring.candidates[j].interests
  /\ scoring.candidates[i].resume_text = scoring.candidates[j].resume_text
  /\ scoring.candidates[i].transcript_text = scoring.candidates[j].transcript_text
  /\ scoring.candidates[i].skill_keywords = scoring.candidates[j].skill_keywords
  /\ [ApplicationOf(i) EXCEPT !.student_id = 0]
       = [ApplicationOf(j) EXCEPT !.student_id = 0]

\* C15: of two candidates of a course with the same rank, no grades and
\* every other scoring input equal, the one with at least one feedback
\* entry (any course, any rating) scores strictly higher than the one
\* with none.
C15_FeedbackBreaksTie ==
  result.op = "evaluate_candidate"
    => \A i \in {1, 2}, j \in {1, 2} :
          (SameButFeedback(i, j) /\ FeedbackOf(i) # <<>> /\ FeedbackOf(j) = <<>>)
            => TupleGreater(ScoreOf(i), ScoreOf(j))

\* ratings [5, 4] on the course against no feedback, scored
C15_Witness ==
  /\ result.op = "evaluate_candidate"
  /\ SameButFeedback(1, 2)
  /\ FeedbackOf(1) = <<[course_id |-> ScoredCourse.id, rating |-> 5],
                       [course_id |-> ScoredCourse.id, rating |-> 4]>>
  /\ FeedbackOf(2) = <<>>
  /\ TupleGreater(ScoreOf(1), ScoreOf(2))

\* ------------------------------------------------- the track-interest bonus
\* Course.track: a Track value or None
TrackInputs ==
  {None, "Machine Learning & Analytics", "Optimization", "Operations"}

\* the parts of StudentProfile.interests between commas
InterestTags ==
  {"  machine learning & analytics ", " optimization ", "Optimization",
   "Finance", " ", "Machine Learning & Analytics", " OPERATIONS"}

MaxTags == 2

\* StudentProfile.interests: None or "" (no part), or up to MaxTags parts
InterestInputs ==
  {<<>>} \cup UNION { [1..n -> InterestTags] : n \in 1..MaxTags }

InitBonus ==
  /\ vacancies = [c \in Courses |-> 0]
  /\ preferences = {}
  /\ assignments = EmptyTable
  /\ course_cache = <<>>
  /\ result = NoResponse
  /\ \E tags \in InterestInputs, track \in TrackInputs :
        scoring = [course |-> [id |-> 1, track |-> track,
                               competency_matrix |-> NoCompetencies],
                   candidates |-> <<[PlainProfile EXCEPT !.interests = tags]>>]
  /\ runs = <<>>
  /\ feedback = {}

InterestBonus ==
  /\ result.op = "none"
  /\ result' = Response("_interest_bonus", <<>>, <<>>,
                 <<_interest_bonus(scoring.candidates[1], scoring.course)>>)
  /\ UNCHANGED <<vacancies, preferences, assignments, course_cache, scoring,
                 runs, feedback>>

NextBonus == InterestBonus

SpecBonus == InitBonus /\ [][NextBonus]_vars

\* the track a tag names once surrounding blanks and letter case are
\* ignored; None when it names no track of TrackInputs
TrackNamed(tag) ==
  CASE tag \in {"  machine learning & analytics ", "Machine Learning & Analytics"}
         -> "Machine Learning & Analytics"
    [] tag \in {" optimization ", "Optimization"} -> "Optimization"
    [] tag = " OPERATIONS" -> "Operations"
    [] OTHER -> None

\* C16: _interest_bonus is 15 when the course has a track and one of the
\* student's interest tags names it up to surrounding blanks and letter
\* case, and 0 in every other case (no interests, no track, no such tag).
C16_InterestBonus ==
  result.op = "_interest_bonus"
    => LET tags == scoring.candidates[1].interests
           track == scoring.course.track
       IN ScoreOf(1) = IF /\ track # None
                          /\ \E i \in DOMAIN tags : TrackNamed(tags[i]) = track
                       THEN 15 * Scale ELSE 0

\* the interests of the repository's test, matched against the ML track
C16_Witness ==
  /\ result.op = "_interest_bonus"
  /\ scoring.candidates[1].interests
       = <<"  machine learning & analytics ", " optimization ">>
  /\ scoring.course.track = "Machine Learning & Analytics"
  /\ ScoreOf(1) = 15 * Scale

\* -------------------------------------------------- normalising a rating
MaxRating == 8

\* InstructorFeedback.rating is an Integer column: values around 1..5, and
\* two far outside
RatingRange == (-MaxRating .. MaxRating) \cup {-1000000, 1000000}

InitRating ==
  /\ vacancies = [c \in Courses |-> 0]
  /\ preferences = {}
  /\ assignments = EmptyTable
  /\ course_cache = <<>>
  /\ result = NoResponse
  /\ \E r1 \in RatingRange, r2 \in RatingRange :
        scoring = [ratings |-> <<r1, r2>>]
  /\ runs = <<>>
  /\ feedback = {}

NormalizeRating ==
  /\ result.op = "none"
  /\ result' = Response("normalize_rating", <<>>, <<>>,
                 <<normalize_rating(scoring.ratings[1]),
                   normalize_rating(scoring.ratings[2])>>)
  /\ UNCHANGED <<vacancies, preferences, assignments, course_cache, scoring,
                 runs, feedback>>

NextRating == NormalizeRating

SpecRating == InitRating /\ [][NextRating]_vars

\* r limited to 1..5
Clamp(r) == IF r < 1 THEN 1 ELSE IF r > 5 THEN 5 ELSE r

\* C17: for every integer rating r, normalize_rating(r) is Clamp(r) / 5 * 100
\* (here in 1/Scale units), lies in 20..100, and r1 <= r2 implies
\* normalize_rating(r1) <= normalize_rating(r2).
C17_NormalizeRating ==
  result.op = "normalize_rating"
    => /\ \A i \in {1, 2} :
            /\ 5 * ScoreOf(i) = Clamp(scoring.ratings[i]) * 100 * Scale
            /\ ScoreOf(i) >= 20 * Scale
            /\ ScoreOf(i) <= 100 * Scale
       /\ scoring.ratings[1] <= scoring.ratings[2] => ScoreOf(1) <= ScoreOf(2)

\* a rating below the scale and one above it, normalised to 20 and 100
C17_Witness ==
  /\ result.op = "normalize_rating"
  /\ scoring.ratings[1] < 1
  /\ scoring.ratings[2] > 5
  /\ ScoreOf(1) = 20 * Scale
  /\ ScoreOf(2) = 100 * Scale

\* ------------------------------------------- services/document_ocr.py
TEXT_EXTENSIONS == {".txt", ".md", ".rtf"}
PDF_EXTENSIONS == {".pdf"}
IMAGE_EXTENSIONS == {".png", ".jpg", ".jpeg", ".tiff", ".bmp"}

\* Path.suffix of the documents that occur in the model
SuffixInputs ==
  {".txt", ".TXT", ".md", ".rtf", ".pdf", ".PDF", ".png", ".jpeg", ".docx", ""}

\* str.lower() on a suffix
suffix_lower(suffix) ==
  CASE suffix = ".TXT" -> ".txt"
    [] suffix = ".PDF" -> ".pdf"
    [] OTHER -> suffix

\* str.strip() on the texts that occur in the model
strip(text) ==
  CASE text = "  hello world\n" -> "hello world"
    [] text = " \n" -> ""
    [] text = "CA Match Resume Skills\n\n" -> "CA Match Resume Skills"
    [] text = "%PDF-1.1\n" -> "%PDF-1.1"
    [] text = " scanned text\n" -> "scanned text"
    [] OTHER -> text

\* what a library call does on a file it cannot parse
LibraryError == "LibraryError"

\* the content of a file: its bytes decoded as UTF-8 with errors ignored,
\* what pdfminer extracts from it and what pytesseract reads in it
ContentInputs ==
  { [decoded |-> "hello world", pdf |-> LibraryError, image |-> LibraryError],
    [decoded |-> "  hello world\n", pdf |-> LibraryError, image |-> LibraryError],
    [decoded |-> " \n", pdf |-> LibraryError, image |-> LibraryError],
    [decoded |-> "", pdf |-> LibraryError, image |-> LibraryError],
    [decoded |-> "%PDF-1.1\n", pdf |-> "CA Match Resume Skills\n\n",
     image |-> LibraryError],
    [decoded |-> "PNG", pdf |-> LibraryError, image |-> " scanned text\n"] }

DocumentInputs ==
  [exists : BOOLEAN, suffix : SuffixInputs, content : ContentInputs]

\* which optional imports succeeded: pdfminer, PIL, pytesseract
ImportInputs ==
  [pdf_extract_text : BOOLEAN, Image : BOOLEAN, pytesseract : BOOLEAN]

Returns(text) ==
  [op |-> "extract_text_from_document", raised |-> "none", text |-> text]

Raises(exception) ==
  [op |-> "extract_text_from_document", raised |-> exception, text |-> ""]

extract_text_from_document(path, imports) ==
  LET suffix == suffix_lower(path.suffix)
  IN IF ~path.exists THEN Raises("FileNotFoundError")
     ELSE IF suffix \in TEXT_EXTENSIONS
     THEN Returns(strip(path.content.decoded))
     ELSE IF suffix \in PDF_EXTENSIONS
     THEN IF ~imports.pdf_extract_text THEN Raises("ValueError")
          ELSE IF path.content.pdf = LibraryError THEN Raises(LibraryError)
          ELSE Returns(strip(path.content.pdf))
     ELSE IF suffix \in IMAGE_EXTENSIONS
     THEN IF ~imports.pytesseract \/ ~imports.Image THEN Raises("ValueError")
          ELSE IF path.content.image = LibraryError THEN Raises(LibraryError)
          ELSE Returns(strip(path.content.image))
     ELSE IF strip(path.content.decoded) = "" THEN Raises("ValueError")
     ELSE Returns(strip(path.content.decoded))

InitDocument ==
  /\ vacancies = [c \in Courses |-> 0]
  /\ preferences = {}
  /\ assignments = EmptyTable
  /\ course_cache = <<>>
  /\ result = NoResponse
  /\ \E path \in DocumentInputs, imports \in ImportInputs :
        scoring = [document |-> path, imports |-> imports]
  /\ runs = <<>>
  /\ feedback = {}

ExtractText ==
  /\ result.op = "none"
  /\ result' = extract_text_from_document(scoring.document, scoring.imports)
  /\ UNCHANGED <<vacancies, preferences, assignments, course_cache, scoring,
                 runs, feedback>>

NextDocument == ExtractText

SpecDocument == InitDocument /\ [][NextDocument]_vars

\* C18: for every existing document whose extension is not .pdf,
\* extract_text_from_document raises ValueError and returns no text.
C18_RejectsNonPdf ==
  (/\ result.op = "extract_text_from_document"
   /\ scoring.document.exists
   /\ scoring.document.suffix \notin {".pdf", ".PDF"})
    => result.raised = "ValueError"

\* ------------------------------------------- restricting a run to courses
\* C19: a run that is given a list of course identifiers creates
\* assignments and changes vacancy counters only for courses of that list;
\* every course outside it is left as it was (so all courses are processed
\* only when no list is given).
C19_OnlyGivenCourses ==
  [][\A course_ids \in CourseIdInputs :
       (StartMatch(course_ids) /\ ~course_ids.none) =>
         \A c \in Courses \ course_ids.ids :
            /\ Created(result', c) = 0
            /\ vacancies'[c] = vacancies[c]
            /\ CourseCount(assignments', c) = CourseCount(assignments, c)]_vars

\* ------------------------------------------------- the candidates of a run
\* the courses a request names: all of them when it gives no list
NamedCourses(course_ids) ==
  IF course_ids.none THEN Courses ELSE course_ids.ids \cap Courses

\* C20: every assignment a run creates is for a pair whose student applied
\* to the course and that had no assignment before the run, and the run
\* returns no pair twice; and every student who applied to a course of the
\* run that has room, and holds no assignment to that course, is a
\* candidate of it (selected for it or put on the skipped list) whether or
\* not the student holds an assignment to another course.
C20_CandidateSet ==
  [][\A course_ids \in CourseIdInputs :
       StartMatch(course_ids) =>
         /\ \A i \in DOMAIN result'.assignments :
               LET k == result'.assignments[i]
               IN /\ \E p \in preferences :
                        p.student_id = k[1] /\ p.course_id = k[2]
                  /\ KeyCount(assignments, k[1], k[2]) = 0
                  /\ CreatedPair(result', k) = 1
         /\ \A c \in NamedCourses(course_ids), s \in Students :
               (/\ CourseCount(assignments, c) < vacancies[c]
                /\ RemainingCandidate(assignments, s, c))
                 => \/ CreatedPair(result', <<s, c>>) = 1
                    \/ \E j \in DOMAIN result'.skipped_students :
                          result'.skipped_students[j] = s]_vars

\* a run has just selected, for one course, a student who held an
\* assignment to another course when the run started
C20_Witness ==
  /\ result.op = "start_match"
  /\ \E s \in Students, c \in Courses, c2 \in Courses :
        /\ c2 # c
        /\ CreatedPair(result, <<s, c>>) = 1
        /\ KeyCount(assignments, s, c2) - CreatedPair(result, <<s, c2>>) >= 1

\* ------------------------------------------------- courses without room
\* the candidates of course c at the start of a run
CandidatesOf(table, c) == { s \in Students : RemainingCandidate(table, s, c) }

\* the courses of the sequence courses that have room at the start of a run
WithRoom(courses) ==
  { c \in Courses : /\ \E i \in DOMAIN courses : courses[i] = c
                    /\ CourseCount(assignments, c) < vacancies[c] }

\* C21: a course whose vacancies minus existing assignments are <= 0 at the
\* start of a run gets no assignment, none of its applicants is scored (the
\* run does not parse the course's competencies) and it adds no entry to the
\* skipped list: the list has exactly one entry per candidate not selected
\* of each course of the run that had room.
C21_FullCourseSkippedEntirely ==
  [][\A course_ids \in CourseIdInputs :
       StartMatch(course_ids) =>
         /\ \A c \in Courses :
               vacancies[c] - CourseCount(assignments, c) <= 0
                 => /\ Created(result', c) = 0
                    /\ vacancies'[c] = vacancies[c]
                    /\ c \in DOMAIN course_cache' => c \in DOMAIN course_cache
         /\ Len(result'.skipped_students)
              = SumFn([c \in Courses |->
                         IF c \in WithRoom(QueryCourses(course_ids))
                         THEN Cardinality(CandidatesOf(assignments, c))
                                - Created(result', c)
                         ELSE 0], NumCourses)]_vars

\* a run has just scored the applicants of one course and left alone a
\* course without room that has an applicant: nothing created for it,
\* nobody skipped, its competencies never parsed
C21_Witness ==
  /\ result.op = "start_match"
  /\ result.skipped_students = <<>>
  /\ \E c \in Courses, c2 \in Courses :
        /\ Created(result, c) = 0
        /\ vacancies[c] - CourseCount(assignments, c) <= 0
        /\ CandidatesOf(assignments, c) # {}
        /\ c \notin DOMAIN course_cache
        /\ Created(result, c2) >= 1
        /\ c2 \in DOMAIN course_cache

\* ------------------------------------------- selection within a course
\* what a run starting now is to return for course c: the candidates L of
\* the course ordered by score descending, equal scores in encounter order
\* (ascending id), the first min(k, |L|) of them selected and the others
\* skipped, k being the remaining vacancies; nothing when k <= 0
CourseOutcome(c) ==
  LET L == CandidatesOf(assignments, c)
      score == [s \in L |->
                  evaluate_candidate(StudentProfile(preferences, s), Course(c),
                                     course_cache)]
      Outranks(s, t) == \/ TupleGreater(score[s], score[t])
                        \/ score[s] = score[t] /\ s < t
      ranked == [i \in 1..Cardinality(L) |->
                   CHOOSE s \in L :
                     Cardinality({ t \in L : Outranks(t, s) }) + 1 = i]
      k == vacancies[c] - CourseCount(assignments, c)
      slots == Max(0, Min(k, Len(ranked)))
  IN [selected |-> [i \in 1..slots |-> <<ranked[i], c>>],
      skipped |-> IF k <= 0 THEN <<>> ELSE SubSeq(ranked, slots + 1, Len(ranked)),
      no_better_skipped |->
        \A i \in 1..slots, j \in (slots + 1)..Len(ranked) :
           ~TupleGreater(score[ranked[j]], score[ranked[i]])]

\* the sequences per_course[c] of the courses of a run, one after another
RECURSIVE InCourseOrder(_, _)
InCourseOrder(per_course, courses) ==
  IF courses = <<>> THEN <<>>
  ELSE per_course[Head(courses)] \o InCourseOrder(per_course, Tail(courses))

\* C22: for each course of a run, with k remaining vacancies and candidates
\* L, the run selects the first min(k, |L|) candidates of L ordered by score
\* descending, equal scores in encounter order, and appends the other
\* candidates, in that order and once each, to the skipped list, so that no
\* skipped candidate of a course has a higher score than a selected one; the
\* run returns these selections and rests one course after another.
C22_SelectionBySortedScore ==
  [][result'.op = "start_match" =>
       LET outcome == [c \in Courses |-> CourseOutcome(c)]
           selected == [c \in Courses |-> outcome[c].selected]
           skipped == [c \in Courses |-> outcome[c].skipped]
       IN /\ \A c \in Courses : outcome[c].no_better_skipped
          /\ \A course_ids \in CourseIdInputs :
                \/ /\ result'.assignments
                        = InCourseOrder(selected, QueryCourses(course_ids))
                   /\ result'.skipped_students
                        = InCourseOrder(skipped, QueryCourses(course_ids))
                \/ ~StartMatch(course_ids)]_vars

\* a run has just given each of two courses to the first of two tied
\* candidates and put the second on the skipped list once per course
C22_Witness ==
  /\ result.op = "start_match"
  /\ Len(result.assignments) >= 2
  /\ \E s \in Students, t \in Students :
        /\ s < t
        /\ \A c \in Courses :
              /\ CreatedPair(result, <<s, c>>) = 1
              /\ \E p \in preferences, q \in preferences :
                    /\ p.student_id = s /\ p.course_id = c
                    /\ q.student_id = t /\ q.course_id = c
                    /\ p.rank = q.rank
        /\ Cardinality({ j \in DOMAIN result.skipped_students :
                           result.skipped_students[j] = t }) = NumCourses

\* ------------------------------------------ what run_matching changes
\* C23: run_matching, before its caller commits anything, leaves the stored
\* vacancies, the preferences and the assignments as they were; the
\* in-memory counter of every course is the stored one minus the assignments
\* the run created for the course, never below 0, so a course that was
\* passed over or had nobody selected keeps its counter.  (The Skill
\* Matcher's cache of parsed competencies is no entity of the data store.)
C23_OnlyVacancyCountersChange ==
  [][\A r \in RunIds :
       (runs[r].pc = "idle" /\ runs'[r].pc = "computed") =>
         /\ vacancies' = vacancies
         /\ preferences' = preferences
         /\ assignments' = assignments
         /\ feedback' = feedback
         /\ \A c \in Courses :
               /\ runs'[r].vacancies[c] = vacancies[c] - Created(runs'[r], c)
               /\ runs'[r].vacancies[c] >= 0
               /\ Created(runs'[r], c) = 0 => runs'[r].vacancies[c] = vacancies[c]]_vars

\* a run has computed, and not yet committed, two assignments for one
\* course, whose in-memory counter is down by two, while a course that has
\* an applicant but no room keeps its counter
C23_Witness ==
  \E r \in RunIds, c \in Courses, c2 \in Courses :
     /\ runs[r].pc = "computed"
     /\ assignments = EmptyTable
     /\ Created(runs[r], c) = 2
     /\ runs[r].vacancies[c] = vacancies[c] - 2
     /\ Created(runs[r], c2) = 0
     /\ CandidatesOf(assignments, c2) # {}
     /\ runs[r].vacancies[c2] = vacancies[c2]

\* ----------------------------------------------- repeated matching runs
\* every course is created with MaxVacancies places; students apply and the
\* administrator starts matching runs, each committed by start_match
InitRepeat ==
  /\ vacancies = [c \in Courses |-> MaxVacancies]
  /\ preferences = {}
  /\ assignments = EmptyTable
  /\ course_cache = <<>>
  /\ result = NoResponse
  /\ scoring = NoScoring
  /\ runs = <<>>
  /\ feedback = {}

NextRepeat ==
  \/ DoAddSinglePreference
  \/ DoStartMatch

SpecRepeat == InitRepeat /\ [][NextRepeat]_vars

\* C24: in a sequence of committed runs, the places a run offers for a
\* course of the run are the course's original vacancy count (MaxVacancies
\* here) minus the assignments the course holds when the run starts: the
\* run assigns that many of the course's candidates, or all of them when
\* they are fewer.
C24_SlotsAreOriginalMinusHeld ==
  [][\A course_ids \in CourseIdInputs :
       StartMatch(course_ids) =>
         \A i \in DOMAIN QueryCourses(course_ids) :
            LET c == QueryCourses(course_ids)[i]
            IN Created(result', c)
                 = Min(Cardinality(CandidatesOf(assignments, c)),
                       Max(0, MaxVacancies - CourseCount(assignments, c)))]_vars

\* ------------------------------------- the Skill Matcher's course cache
\* skill_miner is one object for the whole process: its cache outlives the
\* call, the matching run and the request that filled it
InitCache ==
  /\ vacancies = [c \in Courses |-> 0]
  /\ preferences = {}
  /\ assignments = EmptyTable
  /\ course_cache = <<>>
  /\ result = NoResponse
  /\ \E matrix \in CompetencyInputs, keywords \in KeywordInputs :
        scoring = [course |-> SkillCourse(matrix),
                   candidates |-> <<[PlainProfile EXCEPT
                                       !.skill_keywords = keywords]>>]
  /\ runs = <<>>
  /\ feedback = {}

\* skill_miner.score_match(student, course), as evaluate_candidate calls it
ScoreMatch ==
  /\ result' = Response("score_match", <<>>, <<>>,
                 <<score_match(scoring.candidates[1], scoring.course, course_cache)>>)
  /\ course_cache' = CacheAfter(scoring.course, course_cache)
  /\ UNCHANGED <<vacancies, preferences, assignments, scoring, runs, feedback>>

\* a Course object with the same id and another competency_matrix comes to
\* be scored: the row was edited, or the id belongs to another course
ReplaceCourse(matrix) ==
  /\ matrix # scoring.course.competency_matrix
  /\ scoring' = [scoring EXCEPT !.course.competency_matrix = matrix]
  /\ result' = Response("replace_course", <<>>, <<>>, <<>>)
  /\ UNCHANGED <<vacancies, preferences, assignments, course_cache, runs, feedback>>

\* skill_miner.reset()
Reset ==
  /\ course_cache # <<>>
  /\ course_cache' = <<>>
  /\ result' = Response("reset", <<>>, <<>>, <<>>)
  /\ UNCHANGED <<vacancies, preferences, assignments, scoring, runs, feedback>>

DoReplaceCourse == \E matrix \in CompetencyInputs : ReplaceCourse(matrix)

NextCache ==
  \/ ScoreMatch
  \/ DoReplaceCourse
  \/ Reset

SpecCache == InitCache /\ [][NextCache]_vars

\* C25: whatever was cached before, score_match on a course returns what
\* the course's current competency_matrix gives (the value computed with
\* an empty cache).
C25_ScoreFromCurrentCompetencies ==
  result.op = "score_match"
    => result.scores[1] = score_match(scoring.candidates[1], scoring.course, <<>>)

\* ------------------------------------------------- the feedback score
InitFeedbackScore ==
  /\ vacancies = [c \in Courses |-> 0]
  /\ preferences = {}
  /\ assignments = EmptyTable
  /\ course_cache = <<>>
  /\ result = NoResponse
  /\ \E entries \in FeedbackInputs, id \in {1, 2} :
        scoring = [course |-> [ScoredCourse EXCEPT !.id = id],
                   candidates |-> <<[PlainProfile EXCEPT
                                       !.instructor_feedback = entries]>>]
  /\ runs = <<>>
  /\ feedback = {}

FeedbackScore ==
  /\ result.op = "none"
  /\ result' = Response("_feedback_score", <<>>, <<>>,
                 <<_feedback_score(scoring.candidates[1], scoring.course)>>)
  /\ UNCHANGED <<vacancies, preferences, assignments, course_cache, scoring,
                 runs, feedback>>

NextFeedbackScore == FeedbackScore

SpecFeedbackScore == InitFeedbackScore /\ [][NextFeedbackScore]_vars

\* C26: _feedback_score is the mean of the normalised ratings (20 per point
\* of the rating limited to 1..5) of the student's entries for the course
\* when there is one; otherwise half the mean over all the student's entries
\* when there is one; otherwise 0; and it lies in 0..100.
C26_FeedbackScore ==
  result.op = "_feedback_score"
    => LET entries == FeedbackOf(1)
           own == { i \in DOMAIN entries : entries[i].course_id = scoring.course.id }
           points == [i \in DOMAIN entries |-> Clamp(entries[i].rating) * 20 * Scale]
       IN /\ own # {}
               => ScoreOf(1) * Cardinality(own) = SumOver(points, own)
          /\ (own = {} /\ entries # <<>>)
               => ScoreOf(1) * 2 * Len(entries) = SumOver(points, DOMAIN entries)
          /\ entries = <<>> => ScoreOf(1) = 0
          /\ ScoreOf(1) >= 0
          /\ ScoreOf(1) <= 100 * Scale

\* ratings 5 and 4, both for another course: half of their mean, 45
C26_Witness ==
  /\ result.op = "_feedback_score"
  /\ Len(FeedbackOf(1)) = 2
  /\ \A i \in DOMAIN FeedbackOf(1) : FeedbackOf(1)[i].course_id # scoring.course.id
  /\ { FeedbackOf(1)[i].rating : i \in DOMAIN FeedbackOf(1) } = {4, 5}
  /\ ScoreOf(1) = 45 * Scale

\* ------------------------------------------------- converting a grade
\* grade_in_course and basket_grade_average as they may be stored
GradeTexts ==
  {None, "", "  ", "A+", " a ", "b-", "F", "abc", "3.5", " 4.33\n", "4.4",
   "90", "90.05", "100", "101", "-1", "0", "nan", "inf", "-inf", "1e2"}

InitGrade ==
  /\ vacancies = [c \in Courses |-> 0]
  /\ preferences = {}
  /\ assignments = EmptyTable
  /\ course_cache = <<>>
  /\ result = NoResponse
  /\ \E g1 \in GradeTexts, g2 \in GradeTexts :
        scoring = [grade_in_course |-> g1, basket_grade_average |-> g2]
  /\ runs = <<>>
  /\ feedback = {}

\* the two conversions of evaluate_candidate
GradeToScore ==
  /\ result.op = "none"
  /\ result' = Response("_grade_to_score", <<>>, <<>>,
                 <<_grade_to_score(scoring.grade_in_course),
                   _grade_to_score(scoring.basket_grade_average)>>)
  /\ UNCHANGED <<vacancies, preferences, assignments, course_cache, scoring,
                 runs, feedback>>

NextGrade == GradeToScore

SpecGrade == InitGrade /\ [][NextGrade]_vars

\* what a stored grade means: nothing (missing, blank, unparseable), or a
\* number of hundredths (a letter's grade points, or the number written);
\* Infinity and NegInfinity for numbers beyond every bound
GradeMeaning(raw) ==
  CASE raw \in {None, "", "  ", "abc"} -> [number |-> FALSE, hundredths |-> 0]
    [] raw = "A+" -> [number |-> TRUE, hundredths |-> 433]
    [] raw = " a " -> [number |-> TRUE, hundredths |-> 400]
    [] raw = "b-" -> [number |-> TRUE, hundredths |-> 267]
    [] raw = "F" -> [number |-> TRUE, hundredths |-> 0]
    [] raw = "3.5" -> [number |-> TRUE, hundredths |-> 350]
    [] raw = " 4.33\n" -> [number |-> TRUE, hundredths |-> 433]
    [] raw = "4.4" -> [number |-> TRUE, hundredths |-> 440]
    [] raw = "90" -> [number |-> TRUE, hundredths |-> 9000]
    [] raw = "90.05" -> [number |-> TRUE, hundredths |-> 9005]
    [] raw = "100" -> [number |-> TRUE, hundredths |-> 10000]
    [] raw = "1e2" -> [number |-> TRUE, hundredths |-> 10000]
    [] raw = "101" -> [number |-> TRUE, hundredths |-> 10100]
    [] raw = "-1" -> [number |-> TRUE, hundredths |-> -100]
    [] raw = "0" -> [number |-> TRUE, hundredths |-> 0]
    [] raw = "inf" -> [number |-> TRUE, hundredths |-> Infinity]
    [] raw = "-inf" -> [number |-> TRUE, hundredths |-> NegInfinity]
    [] raw = "nan" -> [number |-> FALSE, hundredths |-> NaN]

InfiniteCompetencyInputs ==
  { [kind |-> "dict", items |-> <<<<"machine", Infinity, TRUE>>>>],
    [kind |-> "dict", items |-> <<<<"machine", Infinity, TRUE>>, <<"learning", 10, TRUE>>>>],
    [kind |-> "dict", items |-> <<<<"machine", 10, TRUE>>, <<"learning", Infinity, TRUE>>>>] }

InitMatch ==
  /\ vacancies = [c \in Courses |-> 0]
  /\ preferences = {}
  /\ assignments = EmptyTable
  /\ course_cache = <<>>
  /\ result = NoResponse
  /\ \E matrix \in CompetencyInputs \cup InfiniteCompetencyInputs,
        keywords \in KeywordInputs :
        scoring = [course |-> SkillCourse(matrix),
                   candidates |-> <<[PlainProfile EXCEPT
                                       !.skill_keywords = keywords]>>]
  /\ runs = <<>>
  /\ feedback = {}

NextMatch == ScoreMatch

SpecMatch == InitMatch /\ [][NextMatch]_vars

\* C28: score_match returns a weighted score of (weight of the matched
\* keywords / weight of all competencies) * 100 and a coverage of (matched
\* keywords / course keywords), within 0..100 and 0..1 for every map of
\* non-negative weights, all-zero weights included; with no student
\* skills, no competencies or no match it returns the empty set and zeros.
C28_ScoreMatch ==
  result.op = "score_match"
    => LET r == result.scores[1]
           competencies == _parse_competencies(scoring.course, <<>>)
           keys == DOMAIN competencies
           skills == student_keywords(scoring.candidates[1])
           matched == skills \cap keys
           total == SumOver(competencies, keys)
       IN /\ r.weighted_score >= 0
          /\ r.weighted_score <= 100 * Scale
          /\ r.coverage >= 0
          /\ r.coverage <= Scale
          /\ r.matched_skills = matched
          /\ matched # {}
               => r.coverage * Cardinality(keys) = Cardinality(matched) * Scale
          /\ (matched # {} /\ total > 0 /\ total < Infinity)
               => r.weighted_score
                    = SumOver(competencies, matched) * ((100 * Scale) \div total)
          /\ matched = {} => r = NoMatch

\* the same with finite weights only
C28_FiniteWeights ==
  (\A k \in DOMAIN _parse_competencies(scoring.course, <<>>) :
      _parse_competencies(scoring.course, <<>>)[k] < Infinity)
    => C28_ScoreMatch

\* ------------------------------------------------ the preference score
\* rank is an int of the request body (StudentCoursePreferenceBase) that
\* set_preferences and add_single_preference store as given
SubmittedRanks == (-12 .. 12) \cup {-89, -100000000}

RankedPreference(rank) ==
  [student_id |-> 1, course_id |-> 1, rank |-> rank,
   faculty_requested |-> FALSE, grade_in_course |-> None,
   basket_grade_average |-> None]

InitRank ==
  /\ vacancies = [c \in Courses |-> 0]
  /\ preferences = {}
  /\ assignments = EmptyTable
  /\ course_cache = <<>>
  /\ result = NoResponse
  /\ \E r1 \in SubmittedRanks, r2 \in SubmittedRanks :
        scoring = [preferences |-> <<RankedPreference(r1), RankedPreference(r2)>>]
  /\ runs = <<>>
  /\ feedback = {}

PreferenceScore ==
  /\ result.op = "none"
  /\ result' = Response("_preference_score", <<>>, <<>>,
                 <<_preference_score(scoring.preferences[1]),
                   _preference_score(scoring.preferences[2])>>)
  /\ UNCHANGED <<vacancies, preferences, assignments, course_cache, scoring,
                 runs, feedback>>

NextRank == PreferenceScore

SpecRank == InitRank /\ [][NextRank]_vars

\* C29: for every integer rank a student can submit, 0 and negative ranks
\* included, the preference score lies in 0..100, so that band 4 (the
\* score * 10^3) stays below one unit of band 3 (10^6).
C29_PreferenceScoreInRange ==
  result.op = "_preference_score"
    => \A i \in {1, 2} :
          /\ ScoreOf(i) >= 0
          /\ ScoreOf(i) <= 100
          /\ ScoreOf(i) * 1000 < 1000000

\* the same for ranks of 1 or more
C29_RanksFromOne ==
  result.op = "_preference_score"
    => \A i \in {1, 2} :
          scoring.preferences[i].rank >= 1
            => (ScoreOf(i) >= 0 /\ ScoreOf(i) <= 100)

\* ------------------------------------------- a student's applications
\* a variant of the rank check that never finds the rank
RankUsed_Never(rows, s, rank) == FALSE

\* add_single_preference's two lookups, .first() on the student's rows
CourseApplied(rows, s, c) ==
  \E p \in rows : p.student_id = s /\ p.course_id = c

RankUsed(rows, s, rank) ==
  \E p \in rows : p.student_id = s /\ p.rank = rank

PreferenceCourseIds == Courses \cup {NumCourses + 1}

\* POST /students/preferences/add with any course id, the rejections
\* included: 404 for an unknown course, 400 for a course applied to or a
\* rank in use, and nothing is written then
RequestAddSinglePreference(s, c, rank) ==
  /\ IF c \notin Courses
     THEN /\ result' = HTTPException("add_single_preference", 404)
          /\ UNCHANGED preferences
     ELSE IF CourseApplied(preferences, s, c)
     THEN /\ result' = HTTPException("add_single_preference", 400)
          /\ UNCHANGED preferences
     ELSE IF RankUsed(preferences, s, rank)
     THEN /\ result' = HTTPException("add_single_preference", 400)
          /\ UNCHANGED preferences
     ELSE /\ result' = Response("add_single_preference", <<>>, <<>>, <<>>)
          /\ preferences' = preferences \cup {Preference(s, c, rank)}
  /\ UNCHANGED <<vacancies, assignments, course_cache, scoring, runs, feedback>>

\* DELETE /students/preferences/{preference_id}, by the user whose profile
\* is s, the id naming the row target: 404 unless the row is the student's
DeletePreference(s, target) ==
  /\ target \in preferences
  /\ IF target.student_id # s
     THEN /\ result' = HTTPException("delete_preference", 404)
          /\ UNCHANGED preferences
     ELSE /\ result' = Response("delete_preference", <<>>, <<>>, <<>>)
          /\ preferences' = preferences \ {target}
  /\ UNCHANGED <<vacancies, assignments, course_cache, scoring, runs, feedback>>

\* the request body of set_preferences: a list of (course_id, rank)
PreferenceLists ==
  UNION { [1..n -> [course_id : PreferenceCourseIds, rank : Ranks]] : n \in 0..2 }

\* POST /students/preferences, by the user whose profile is s: the student's
\* rows are deleted and one row per entry is added, with the entry's rank.
\* An entry with an unknown course raises 404; a second entry for a course
\* breaks uq_student_course when it is flushed (500).  The session is
\* closed without a commit then, and the rows stay as they were.
SetPreferences(s, prefs) ==
  LET unknown == { i \in DOMAIN prefs : prefs[i].course_id \notin Courses }
      repeated == { i \in DOMAIN prefs :
                      \E j \in 1..(i - 1) : prefs[j].course_id = prefs[i].course_id }
      failing == unknown \cup repeated
      first == CHOOSE i \in failing : \A j \in failing : i <= j
  IN /\ IF failing # {}
        THEN /\ result' = HTTPException("set_preferences",
                            IF first \in unknown THEN 404 ELSE 500)
             /\ UNCHANGED preferences
        ELSE /\ result' = Response("set_preferences", <<>>, <<>>, <<>>)
             /\ preferences' =
                  { p \in preferences : p.student_id # s }
                    \cup { Preference(s, prefs[i].course_id, prefs[i].rank) :
                             i \in DOMAIN prefs }
     /\ UNCHANGED <<vacancies, assignments, course_cache, scoring, runs, feedback>>

InitPreferences ==
  /\ vacancies = [c \in Courses |-> MaxVacancies]
  /\ preferences = {}
  /\ assignments = EmptyTable
  /\ course_cache = <<>>
  /\ result = NoResponse
  /\ scoring = NoScoring
  /\ runs = <<>>
  /\ feedback = {}

DoRequestAddSinglePreference ==
  \E s \in Students, c \in PreferenceCourseIds, rank \in Ranks :
     RequestAddSinglePreference(s, c, rank)

DoDeletePreference ==
  \E s \in Students, target \in preferences : DeletePreference(s, target)

DoSetPreferences ==
  \E s \in Students, prefs \in PreferenceLists : SetPreferences(s, prefs)

NextPreferences ==
  \/ DoRequestAddSinglePreference
  \/ DoDeletePreference
  \/ DoSetPreferences

SpecPreferences == InitPreferences /\ [][NextPreferences]_vars

\* the rows of student s
RowsOf(rows, s) == { p \in rows : p.student_id = s }

\* every student's rows have pairwise distinct courses and distinct ranks
DistinctCoursesAndRanks(rows) ==
  \A p \in rows, q \in rows :
     (p.student_id = q.student_id /\ p # q)
       => (p.course_id # q.course_id /\ p.rank # q.rank)

\* C30: add_single_preference answers with an error, and leaves the stored
\* preferences alone, when the student has a preference for the course or
\* one with the rank; so add_single_preference and delete_preference keep
\* every student's preferences pairwise distinct in course and in rank;
\* set_preferences stores each entry's rank as given, equal ranks included.
C30_AddChecksSetDoesNot ==
  [][/\ \A s \in Students, c \in Courses, rank \in Ranks :
          (/\ RequestAddSinglePreference(s, c, rank)
           /\ \E p \in RowsOf(preferences, s) : p.course_id = c \/ p.rank = rank)
            => (result'.status_code = 400 /\ preferences' = preferences)
     /\ (/\ result'.op \in {"add_single_preference", "delete_preference"}
         /\ DistinctCoursesAndRanks(preferences))
          => DistinctCoursesAndRanks(preferences')
     /\ \A s \in Students, prefs \in PreferenceLists :
          (SetPreferences(s, prefs) /\ result'.status_code = 200)
            => /\ Cardinality(RowsOf(preferences', s)) = Len(prefs)
               /\ \A i \in DOMAIN prefs :
                     \E p \in RowsOf(preferences', s) :
                        /\ p.course_id = prefs[i].course_id
                        /\ p.rank = prefs[i].rank]_vars

\* a student holds two preferences of one rank, as set_preferences stored
\* them, and add_single_preference has just refused a request
C30_Witness ==
  /\ result.op = "add_single_preference"
  /\ result.status_code = 400
  /\ \E p \in preferences, q \in preferences :
        /\ p.student_id = q.student_id
        /\ p.course_id # q.course_id
        /\ p.rank = q.rank

====
